---- MODULE Spec2Model ----
(***************************************************************************)
(* Model of the image-to-code application: the Home component (generation  *)
(* cycle, response decomposition) and the CodePreview component (blob URL  *)
(* materialization, reference rewriting, sandboxed preview, zip export).   *)
(*                                                                         *)
(* Texts are sequences of characters.  Every character is a one-character  *)
(* string, except the backquote, which a TLA+ string cannot contain and    *)
(* which is written BT.                                                    *)
(***************************************************************************)
EXTENDS Integers, Sequences, FiniteSets, TLC

VARIABLES
  imageBase64,     \* Home state: uploaded image as data URL ("" when none)
  urlInput,        \* Home state: URL field
  output,          \* Home state: Null or the StructuredDocument
  loading,         \* Home state: the "generating" flag
  showErrorModal,  \* Home state: error indicator
  pending,         \* number of collaborator calls started and not settled
  jobs,            \* settled calls whose continuation has not run yet
  responseText,    \* generateCode local: the text the call resolved to
  parsedOutput,    \* generateCode local: parseResponse(responseText)
  activeView,      \* CodePreview state
  selectedFile,    \* CodePreview state
  previewContent,  \* CodePreview state: the iframe's srcDoc
  blobUrls,        \* <<the Map of the effect run whose cleanup is armed>>, or <<>>
  effectPending,   \* CodePreview committed, its effect not flushed yet
  reruns,          \* times React re-ran the effect of the mounted preview
  zipJobs,         \* archives being generated by handleDownload
  archive,         \* <<the archive handed to the last download>>, or <<>>
  exports,         \* downloads started so far
  urlStore,        \* browser: object URLs created and not revoked
  nextUrl,         \* browser: next fresh object URL id
  urlOwner,        \* browser: what is behind each object URL ever created
  epoch,           \* history: number of materializations so far
  history,         \* history: outcome of each finished generation
  pieces,          \* number of pieces the raw text was assembled from
  declared         \* what the input was written from: the fenced blocks of the
                   \* files section, or the references of the entry document

homeVars    == <<imageBase64, urlInput, output, loading, showErrorModal>>
asyncVars   == <<pending, jobs, responseText, parsedOutput>>
previewVars == <<activeView, selectedFile, previewContent, blobUrls, effectPending, reruns>>
exportVars  == <<zipJobs, archive, exports>>
browserVars == <<urlStore, nextUrl, urlOwner, epoch>>
inputVars   == <<pieces, declared>>
vars == <<homeVars, asyncVars, previewVars, exportVars, browserVars, history, inputVars>>

(***************************************************************************)
(* Bounds                                                                  *)
(***************************************************************************)
MaxGenerations == 2   \* generations started in one behaviour
MaxExports     == 1   \* downloads started in one behaviour
MaxReruns      == 1   \* effect re-runs per mounted preview
MaxPieces      == 2   \* pieces of an assembled raw text

(***************************************************************************)
(* Characters and text helpers                                             *)
(***************************************************************************)
BT == "BACKQUOTE"

Chars(s) == [i \in 1..Len(s) |-> SubSeq(s, i, i)]

Fence == <<BT, BT, BT>>

\* U+000B, the vertical tab (the string holds the character itself)
VT == ""

\* the class \s of a JavaScript regex, which is also what trim() removes:
\* tab, line feed, vertical tab, form feed, carriage return, space, U+00A0,
\* U+1680, U+FEFF (each written as the character itself), and the members
\* that a string literal cannot hold, each standing as one character under
\* its code point: U+2000..U+200A, U+2028, U+2029, U+202F, U+205F, U+3000
WhiteSpace ==
  {" ", "\t", "\n", VT, "\f", "\r", " ", " ", "﻿",
   "U+2000", "U+2001", "U+2002", "U+2003", "U+2004", "U+2005", "U+2006",
   "U+2007", "U+2008", "U+2009", "U+200A", "U+2028", "U+2029", "U+202F",
   "U+205F", "U+3000"}

WordChars ==
  LET s == "abcdefghijklmnopqrstuvwxyzABCDEFGHIJKLMNOPQRSTUVWXYZ0123456789_"
  IN {SubSeq(s, i, i) : i \in 1..Len(s)}

\* [\w.\/\\-]
NameChars == WordChars \cup {".", "/", "\\", "-"}

Null == [null |-> TRUE]

Min(S) == CHOOSE x \in S : \A y \in S : x <= y

StartsWithAt(t, pat, i) ==
  /\ i >= 1
  /\ i + Len(pat) - 1 <= Len(t)
  /\ SubSeq(t, i, i + Len(pat) - 1) = pat

\* least index >= from at which pat occurs in t, 0 when there is none
IndexOf(t, pat, from) ==
  LET S == {i \in from..(Len(t) - Len(pat) + 1) : StartsWithAt(t, pat, i)}
  IN IF S = {} THEN 0 ELSE Min(S)

\* first index >= from whose character is not in cls (Len(t)+1 when none)
SkipWhile(t, cls, from) ==
  LET S == {i \in from..Len(t) : t[i] \notin cls}
  IN IF S = {} THEN Len(t) + 1 ELSE Min(S)

\* String.prototype.trim
Trim(t) ==
  LET S == {i \in 1..Len(t) : t[i] \notin WhiteSpace}
  IN IF S = {} THEN <<>>
     ELSE SubSeq(t, Min(S), CHOOSE x \in S : \A y \in S : y <= x)

(***************************************************************************)
(* parseResponse: Section Extractor and Code Block Extractor               *)
(***************************************************************************)
HeaderMarker     == Chars("### 4.1. Header Block")
StructureMarker  == Chars("### 4.2. Project Structure")
CodeFilesMarker  == Chars("### 4.3. Code Files")
FilesMarker      == Chars("### 4.3. Code Files (Full & Unabridged)")
NotesMarker      == Chars("### 4.4. Notes")

\* text.match(/<open>\s*([\s\S]*?)\s*<close>/), then group 1 trimmed ('' when
\* there is no match): the first <open>, cut at the first <close> after it
SectionBetween(text, open, close) ==
  LET i == IndexOf(text, open, 1)
      j == IF i = 0 THEN 0 ELSE IndexOf(text, close, i + Len(open))
  IN IF j = 0 THEN <<>> ELSE Trim(SubSeq(text, i + Len(open), j - 1))

\* text.match(/### 4\.4\. Notes\s*([\s\S]*)/), then group 1 trimmed
NotesSection(text) ==
  LET i == IndexOf(text, NotesMarker, 1)
  IN IF i = 0 THEN <<>> ELSE Trim(SubSeq(text, i + Len(NotesMarker), Len(text)))

\* the position at which the lookahead (?=\s*### 4\.4\. Notes|$) first holds,
\* scanning from p
FilesSectionEnd(text, p) ==
  LET S == {k \in p..(Len(text) + 1) :
              \/ k = Len(text) + 1
              \/ StartsWithAt(text, NotesMarker, SkipWhile(text, WhiteSpace, k))}
  IN Min(S)

\* filesSectionMatch: Null, or [section |-> group 1]
FilesSectionMatch(text) ==
  LET i == IndexOf(text, FilesMarker, 1)
      p == SkipWhile(text, WhiteSpace, i + Len(FilesMarker))
  IN IF i = 0 THEN Null
     ELSE [section |-> SubSeq(text, p, FilesSectionEnd(text, p) - 1)]

\* the groups taken in the wrong order
CodeBlockAtSwapped(sec, i) ==
  IF ~StartsWithAt(sec, Fence, i) THEN Null
  ELSE
    LET a == SkipWhile(sec, WordChars, i + 3)
        b == IF a <= Len(sec) /\ sec[a] = ":" THEN a + 1 ELSE a
        c == SkipWhile(sec, NameChars, b)
        e == IF c <= Len(sec) /\ sec[c] = "\n"
             THEN IndexOf(sec, <<"\n">> \o Fence, c + 1) ELSE 0
    IN IF e = 0 THEN Null
       ELSE [lang    |-> SubSeq(sec, b, c - 1),
             name    |-> SubSeq(sec, i + 3, a - 1),
             content |-> SubSeq(sec, c + 1, e - 1),
             next    |-> e + 4]

\* codeBlockRegex /```(\w*):?([\w.\/\\-]+)?\n([\s\S]*?)\n```/ tried at index i:
\* Null, or the captured groups and the index after the match
CodeBlockAt(sec, i) ==
  IF ~StartsWithAt(sec, Fence, i) THEN Null
  ELSE
    LET a == SkipWhile(sec, WordChars, i + 3)
        b == IF a <= Len(sec) /\ sec[a] = ":" THEN a + 1 ELSE a
        c == SkipWhile(sec, NameChars, b)
        e == IF c <= Len(sec) /\ sec[c] = "\n"
             THEN IndexOf(sec, <<"\n">> \o Fence, c + 1) ELSE 0
    IN IF e = 0 THEN Null
       ELSE [lang    |-> SubSeq(sec, i + 3, a - 1),
             name    |-> SubSeq(sec, b, c - 1),
             content |-> SubSeq(sec, c + 1, e - 1),
             next    |-> e + 4]

\* one codeBlockRegex.exec from lastIndex
ExecCodeBlock(sec, lastIndex) ==
  LET S == {i \in lastIndex..Len(sec) : CodeBlockAt(sec, i) # Null}
  IN IF S = {} THEN Null ELSE CodeBlockAt(sec, Min(S))

\* the body of the while loop: files.push({lang || 'text', name || 'untitled', content.trim()})
RECURSIVE CodeBlocks(_, _)
CodeBlocks(sec, lastIndex) ==
  LET match == ExecCodeBlock(sec, lastIndex)
  IN IF match = Null THEN <<>>
     ELSE <<[lang    |-> IF match.lang = <<>> THEN Chars("text") ELSE match.lang,
             name    |-> IF match.name = <<>> THEN Chars("untitled") ELSE match.name,
             content |-> Trim(match.content)]>>
          \o CodeBlocks(sec, match.next)

\* the fallback regex /```(?:[\w]*)?\s*([\s\S]*?)```/ tried at index i:
\* Null, or [content |-> group 1]
FallbackAt(text, i) ==
  IF ~StartsWithAt(text, Fence, i) THEN Null
  ELSE
    LET a == SkipWhile(text, WordChars, i + 3)
        p == SkipWhile(text, WhiteSpace, a)
        q == IndexOf(text, Fence, p)
    IN IF q = 0 THEN Null ELSE [content |-> SubSeq(text, p, q - 1)]

\* regex.exec(text) of the fallback
FallbackMatch(text) ==
  LET S == {i \in 1..Len(text) : FallbackAt(text, i) # Null}
  IN IF S = {} THEN Null ELSE FallbackAt(text, Min(S))

\* the fallback for a single, untyped code block
FallbackFiles(text) ==
  LET match == FallbackMatch(text)
  IN IF match = Null THEN <<>>
     ELSE <<[name    |-> Chars("code.js"),
             lang    |-> Chars("javascript"),
             content |-> Trim(match.content)]>>

FilesOf(text) ==
  LET filesSectionMatch == FilesSectionMatch(text)
      files == IF filesSectionMatch = Null THEN <<>>
               ELSE CodeBlocks(filesSectionMatch.section, 1)
  IN IF Len(files) = 0 THEN FallbackFiles(text) ELSE files

parseResponse(text) ==
  [header    |-> SectionBetween(text, HeaderMarker, StructureMarker),
   structure |-> SectionBetween(text, StructureMarker, CodeFilesMarker),
   notes     |-> NotesSection(text),
   files     |-> FilesOf(text)]

(***************************************************************************)
(* CodePreview: Asset Materializer, Reference Rewriter, Preview Renderer   *)
(***************************************************************************)
Placeholder ==
  Chars("<div class=\"flex items-center justify-center h-full text-gray-500\"><h2>No index.html found to preview.</h2></div>")

IndexHtml == Chars("index.html")

\* the iframe's sandbox attribute
SandboxTokens == {"allow-scripts", "allow-same-origin"}

Range(f) == {f[x] : x \in DOMAIN f}

\* the first file taken when none carries the name
FindByNameOrFirst(files, name) ==
  LET S == {k \in 1..Len(files) : files[k].name = name}
  IN IF S = {} THEN Min({1, Len(files)}) ELSE Min(S)

\* files.find((f) => f.name === name): the index of the first such file, 0 if none
FindByName(files, name) ==
  LET S == {k \in 1..Len(files) : files[k].name = name}
  IN IF S = {} THEN 0 ELSE Min(S)

\* useState(files.find((f) => f.name === 'index.html') || files[0])
InitialSelectedFile(files) ==
  IF FindByName(files, IndexHtml) # 0 THEN files[FindByName(files, IndexHtml)]
  ELSE IF Len(files) = 0 THEN Null
  ELSE files[1]

EndsWith(t, suffix) ==
  Len(t) >= Len(suffix) /\ SubSeq(t, Len(t) - Len(suffix) + 1, Len(t)) = suffix

\* the suffixes compared without their dot
MimeTypeNoDot(name) ==
  IF EndsWith(name, Chars("html")) THEN "text/html"
  ELSE IF EndsWith(name, Chars("css")) THEN "text/css"
  ELSE IF EndsWith(name, Chars("js")) THEN "application/javascript"
  ELSE IF EndsWith(name, Chars("json")) THEN "application/json"
  ELSE IF EndsWith(name, Chars("svg")) THEN "image/svg+xml"
  ELSE "text/plain"

MimeType(name) ==
  IF EndsWith(name, Chars(".html")) THEN "text/html"
  ELSE IF EndsWith(name, Chars(".css")) THEN "text/css"
  ELSE IF EndsWith(name, Chars(".js")) THEN "application/javascript"
  ELSE IF EndsWith(name, Chars(".json")) THEN "application/json"
  ELSE IF EndsWith(name, Chars(".svg")) THEN "image/svg+xml"
  ELSE "text/plain"

\* handles that read as relative paths
BlobUrlAsPath(id) == IF id % 2 = 1 THEN Chars("app.js") ELSE Chars("index.html")

\* the string URL.createObjectURL returns for the id-th object URL
BlobUrl(id) == Chars("blob:") \o Chars(ToString(id))

\* the ids URL.createObjectURL hands out in the for loop, one per file
CreatedIds(files, first) == first..(first + Len(files) - 1)

\* blobUrls after the for loop: Map.set keeps one entry per name, the last
BlobUrlsOf(files, first) ==
  [n \in {files[k].name : k \in 1..Len(files)} |->
     first - 1 + (CHOOSE k \in 1..Len(files) :
                    /\ files[k].name = n
                    /\ \A j \in 1..Len(files) : files[j].name = n => j <= k)]

Quotes == {"\"", "'"}

\* /(href|src)=["'](\.\/|)?([^"']+)["']/ tried at index i: Null, or the
\* groups attr and path and the index of the last character matched
RefAt(html, i) ==
  LET attr == IF StartsWithAt(html, Chars("href"), i) THEN Chars("href")
              ELSE IF StartsWithAt(html, Chars("src"), i) THEN Chars("src")
              ELSE <<>>
      q == i + Len(attr) + 1            \* the opening quote
      r == q + 1                        \* first character after it
      e == IF r <= Len(html) THEN SkipWhile(html, {c \in Range(html) : c \notin Quotes}, r)
           ELSE r
  IN IF attr = <<>> THEN Null
     ELSE IF ~(q <= Len(html) /\ html[q - 1] = "=" /\ html[q] \in Quotes) THEN Null
     ELSE IF e = r \/ e > Len(html) THEN Null
     ELSE [attr |-> attr,
           path |-> IF StartsWithAt(html, Chars("./"), r) /\ e - r > 2
                    THEN SubSeq(html, r + 2, e - 1) ELSE SubSeq(html, r, e - 1),
           last |-> e]

\* the leading "/" of the path not stripped
ReplacementUnstripped(html, i, urls) ==
  LET m == RefAt(html, i)
  IN IF m.path \in DOMAIN urls
     THEN m.attr \o Chars("=\"") \o BlobUrl(urls[m.path]) \o Chars("\"")
     ELSE SubSeq(html, i, m.last)

\* the replacer callback
Replacement(html, i, urls) ==
  LET m == RefAt(html, i)
      absolutePath == IF Len(m.path) > 0 /\ m.path[1] = "/"
                      THEN SubSeq(m.path, 2, Len(m.path)) ELSE m.path
  IN IF absolutePath \in DOMAIN urls
     THEN m.attr \o Chars("=\"") \o BlobUrl(urls[absolutePath]) \o Chars("\"")
     ELSE SubSeq(html, i, m.last)

\* processedHtml.replace(/.../g, replacer), scanning from index pos
RECURSIVE ReplaceRefs(_, _, _)
ReplaceRefs(html, pos, urls) ==
  LET S == {i \in pos..Len(html) : RefAt(html, i) # Null}
  IN IF S = {} THEN SubSeq(html, pos, Len(html))
     ELSE LET i == Min(S)
          IN SubSeq(html, pos, i - 1) \o Replacement(html, i, urls)
             \o ReplaceRefs(html, RefAt(html, i).last + 1, urls)

\* the folder a path lies in, as zip.file() computes it: a trailing "/" is
\* dropped, then the path is cut before its last "/"; none when that "/" is
\* the first character or there is no "/"
ParentFolder(path) ==
  LET p == IF path # <<>> /\ path[Len(path)] = "/"
           THEN SubSeq(path, 1, Len(path) - 1) ELSE path
      S == {i \in 1..Len(p) : p[i] = "/"}
  IN IF S = {} \/ (\A i \in S : i = 1) THEN <<>>
     ELSE SubSeq(p, 1, (CHOOSE i \in S : \A j \in S : j <= i) - 1)

\* zip with the entry of one name set
ZipPut(zip, name, entry) ==
  [n \in DOMAIN zip \cup {name} |-> IF n = name THEN entry ELSE zip[n]]

\* the folder entries zip.file() adds for a path, with its default options:
\* the folder "name/" unless the zip has that entry already, after the
\* folders above it
RECURSIVE FolderAdd(_, _)
FolderAdd(zip, name) ==
  LET n      == IF name[Len(name)] = "/" THEN name ELSE name \o <<"/">>
      parent == ParentFolder(n)
      z      == IF parent = <<>> THEN zip ELSE FolderAdd(zip, parent)
  IN IF n \in DOMAIN zip THEN zip
     ELSE ZipPut(z, n, [dir |-> TRUE, content |-> <<>>])

\* zip.file(name, content): the folders of the path first, then the entry of
\* that name, replacing what the name held
ZipFile(zip, name, content) ==
  LET parent == ParentFolder(name)
      z      == IF parent = <<>> THEN zip ELSE FolderAdd(zip, parent)
  IN ZipPut(z, name, [dir |-> FALSE, content |-> content])

\* new JSZip() after the first k calls of
\* files.forEach((file) => zip.file(file.name, file.content))
RECURSIVE ZipAfter(_, _)
ZipAfter(files, k) ==
  IF k = 0 THEN <<>>
  ELSE ZipFile(ZipAfter(files, k - 1), files[k].name, files[k].content)

\* the zip handed to generateAsync
ZipOf(files) == ZipAfter(files, Len(files))

(***************************************************************************)
(* Responses of the text-generation collaborator                           *)
(***************************************************************************)
Block(tag, body) == Fence \o Chars(tag) \o Chars("\n") \o Chars(body) \o Chars("\n") \o Fence

\* Scenario A as the specification words it
ScenarioA ==
  Chars("### 4.1. Header Block\nHi\n### 4.2. Project Structure\nTree\n### 4.3. Code Files\n")
  \o Block("html:index.html", "<h1>Hi</h1>") \o Chars("\n### 4.4. Notes\nDone")

\* Scenario A with the files marker the system prompt asks for
ScenarioAFull ==
  Chars("### 4.1. Header Block\nHi\n### 4.2. Project Structure\nTree\n### 4.3. Code Files (Full & Unabridged)\n")
  \o Block("html:index.html", "<h1>Hi</h1>") \o Chars("\n### 4.4. Notes\nDone")

\* Scenario B: no block in the files section, one generic block elsewhere
ScenarioB ==
  Chars("### 4.3. Code Files (Full & Unabridged)\nnone\n### 4.4. Notes\n")
  \o Block("", "console.log(1)")

\* an entry file referring to two scripts, and a second file named app.js
TwoAppJs ==
  Chars("### 4.3. Code Files (Full & Unabridged)\n")
  \o Block("html:index.html", "<script src=\"./app.js\"></script><script src=\"missing.js\"></script>")
  \o Chars("\n") \o Block("js:app.js", "a()")
  \o Chars("\n") \o Block("js:app.js", "b()")

\* files, none of them the entry file
NoEntryFile ==
  Chars("### 4.3. Code Files (Full & Unabridged)\n")
  \o Block("css:style.css", "p{}") \o Chars("\n") \o Block("", "x")

\* no fenced block at all
NoCode == Chars("### 4.1. Header Block\nSorry\n### 4.4. Notes\nnothing")

\* what the collaborator resolves to in the generation cycle
Responses == {TwoAppJs, NoEntryFile, NoCode}

Outcomes ==
  {[kind |-> "reject"]} \cup {[kind |-> "resolve", text |-> t] : t \in Responses}

(***************************************************************************)
(* Home                                                                    *)
(***************************************************************************)
NoInput == imageBase64 = "" /\ urlInput = ""

DisabledWithoutLoading == NoInput

\* the Generate button: disabled={(!imageBase64 && !urlInput) || loading}
GenerateDisabled == NoInput \/ loading

\* the output column: loading ? loader : output ? <CodePreview/> : placeholder
Mounted == ~loading /\ output # Null

PreviewRendered == Mounted /\ activeView = "preview"

Started == Len(history) + pending + Len(jobs)

\* the ids the effect's cleanup function revokes
Revoked == IF blobUrls = <<>> THEN {} ELSE Range(blobUrls[1])

HasFilesAlways(parsed) == TRUE

\* the single success predicate of the Document Model Builder
HasFiles(parsed) == Len(parsed.files) > 0

FinallySkipped == loading

\* the finally block: setLoading(false)
FinallyLoading == FALSE

\* if (parsedOutput.files.length === 0) { setShowErrorModal(true); return; }
EmptyResultSilent == UNCHANGED <<showErrorModal, output>>

EmptyResultBranch ==
  /\ showErrorModal' = TRUE
  /\ UNCHANGED output

\* catch (error) { setShowErrorModal(true); }
CatchBranch ==
  /\ showErrorModal' = TRUE
  /\ UNCHANGED output

Unmounted ==
  /\ activeView' = "preview"
  /\ selectedFile' = Null
  /\ previewContent' = <<>>
  /\ blobUrls' = <<>>
  /\ effectPending' = FALSE
  /\ reruns' = 0

Init ==
  /\ imageBase64 = ""
  /\ urlInput = ""
  /\ output = Null
  /\ loading = FALSE
  /\ showErrorModal = FALSE
  /\ pending = 0
  /\ jobs = <<>>
  /\ responseText = <<>>
  /\ parsedOutput = Null
  /\ activeView = "preview"
  /\ selectedFile = Null
  /\ previewContent = <<>>
  /\ blobUrls = <<>>
  /\ effectPending = FALSE
  /\ reruns = 0
  /\ zipJobs = <<>>
  /\ archive = <<>>
  /\ exports = 0
  /\ urlStore = {}
  /\ nextUrl = 1
  /\ urlOwner = <<>>
  /\ epoch = 0
  /\ history = <<>>
  /\ pieces = 0
  /\ declared = <<>>

setUrlInput(v) ==
  /\ ~effectPending
  /\ urlInput # v
  /\ urlInput' = v
  /\ UNCHANGED <<imageBase64, output, loading, showErrorModal, asyncVars,
                 previewVars, exportVars, browserVars, history, inputVars>>

setImageBase64(v) ==
  /\ ~effectPending
  /\ imageBase64 # v
  /\ imageBase64' = v
  /\ UNCHANGED <<urlInput, output, loading, showErrorModal, asyncVars,
                 previewVars, exportVars, browserVars, history, inputVars>>

\* ErrorModal onClose
CloseErrorModal ==
  /\ ~effectPending
  /\ showErrorModal
  /\ showErrorModal' = FALSE
  /\ UNCHANGED <<imageBase64, urlInput, output, loading, asyncVars,
                 previewVars, exportVars, browserVars, history, inputVars>>

\* generateCode up to the await; React then renders the loader in place of
\* CodePreview, whose effect cleanup runs as it unmounts
generateCode ==
  /\ ~GenerateDisabled
  /\ ~effectPending
  /\ Started < MaxGenerations
  /\ ~NoInput
  /\ loading' = TRUE
  /\ output' = Null
  /\ pending' = pending + 1
  /\ urlStore' = IF Mounted THEN urlStore \ Revoked ELSE urlStore
  /\ Unmounted
  /\ responseText' = <<>>
  /\ parsedOutput' = Null
  /\ UNCHANGED <<imageBase64, urlInput, showErrorModal, jobs, exportVars,
                 nextUrl, urlOwner, epoch, history, inputVars>>

\* the collaborator call settles; the rest of generateCode is queued
CollaboratorSettle ==
  /\ pending > 0
  /\ \E r \in Outcomes : jobs' = Append(jobs, r)
  /\ pending' = pending - 1
  /\ UNCHANGED <<homeVars, responseText, parsedOutput, previewVars, exportVars,
                 browserVars, history, inputVars>>

\* the preview after Home renders with loading = l and output = o
Render(l, o) ==
  IF ~l /\ o # Null
  THEN IF Mounted
       THEN \* files changed under a mounted preview: cleanup, effect due again
            /\ urlStore' = IF o # output THEN urlStore \ Revoked ELSE urlStore
            /\ blobUrls' = IF o # output THEN <<>> ELSE blobUrls
            /\ effectPending' = (o # output)
            /\ UNCHANGED <<activeView, selectedFile, previewContent, reruns>>
       ELSE /\ activeView' = "preview"
            /\ selectedFile' = InitialSelectedFile(o.files)
            /\ previewContent' = <<>>
            /\ blobUrls' = <<>>
            /\ effectPending' = TRUE
            /\ reruns' = 0
            /\ UNCHANGED urlStore
  ELSE /\ urlStore' = IF Mounted THEN urlStore \ Revoked ELSE urlStore
       /\ Unmounted

\* the result of the try block's parse, Null when the call rejected
ParsedOf(job) == IF job.kind = "reject" THEN Null ELSE parseResponse(job.text)

\* generateCode after the await: try / catch / finally
generateCodeResume ==
  /\ jobs # <<>>
  /\ \E job \in {Head(jobs)} : \E parsed \in {ParsedOf(job)} :
        /\ jobs' = Tail(jobs)
        /\ history' = Append(history, IF job.kind = "reject" THEN "reject"
                                      ELSE IF HasFiles(parsed) THEN "ok" ELSE "empty")
        /\ IF job.kind = "reject"
           THEN /\ CatchBranch
                /\ UNCHANGED <<responseText, parsedOutput>>
           ELSE /\ responseText' = job.text
                /\ parsedOutput' = parsed
                /\ IF ~HasFiles(parsed)
                   THEN EmptyResultBranch
                   ELSE /\ output' = parsed
                        /\ UNCHANGED showErrorModal
        /\ loading' = FinallyLoading
        /\ Render(FinallyLoading,
                  IF job.kind # "reject" /\ HasFiles(parsed) THEN parsed ELSE output)
  /\ UNCHANGED <<imageBase64, urlInput, pending, exportVars, nextUrl, urlOwner,
                 epoch, inputVars>>

(***************************************************************************)
(* CodePreview actions                                                     *)
(***************************************************************************)
\* the preview content set by the first run only
EffectBodyContentOnce(store) ==
  LET files == output.files
      main == FindByName(files, IndexHtml)
      ids == CreatedIds(files, nextUrl)
  IN IF main = 0
     THEN /\ previewContent' = Placeholder
          /\ blobUrls' = <<>>
          /\ urlStore' = store
          /\ UNCHANGED <<nextUrl, urlOwner, epoch>>
     ELSE /\ blobUrls' = <<BlobUrlsOf(files, nextUrl)>>
          /\ urlStore' = store \cup ids
          /\ nextUrl' = nextUrl + Len(files)
          /\ epoch' = epoch + 1
          /\ urlOwner' = urlOwner \o [k \in 1..Len(files) |->
                                        [kind |-> "preview", epoch |-> epoch + 1,
                                         type |-> MimeType(files[k].name)]]
          /\ previewContent' =
               IF previewContent # <<>> THEN previewContent
               ELSE ReplaceRefs(files[main].content, 1, BlobUrlsOf(files, nextUrl))

\* the body of the useEffect, run with the object URL store as `store`
EffectBody(store) ==
  LET files == output.files
      main == FindByName(files, IndexHtml)
      ids == CreatedIds(files, nextUrl)
  IN IF main = 0
     THEN /\ previewContent' = Placeholder
          /\ blobUrls' = <<>>
          /\ urlStore' = store
          /\ UNCHANGED <<nextUrl, urlOwner, epoch>>
     ELSE /\ blobUrls' = <<BlobUrlsOf(files, nextUrl)>>
          /\ urlStore' = store \cup ids
          /\ nextUrl' = nextUrl + Len(files)
          /\ epoch' = epoch + 1
          /\ urlOwner' = urlOwner \o [k \in 1..Len(files) |->
                                        [kind |-> "preview", epoch |-> epoch + 1,
                                         type |-> MimeType(files[k].name)]]
          /\ previewContent' = ReplaceRefs(files[main].content, 1, BlobUrlsOf(files, nextUrl))

\* React flushes the effect of the committed preview
RunEffect ==
  /\ Mounted
  /\ effectPending
  /\ EffectBody(urlStore)
  /\ effectPending' = FALSE
  /\ UNCHANGED <<homeVars, asyncVars, activeView, selectedFile, reruns,
                 exportVars, history, inputVars>>

\* React runs the effect again: the cleanup of the last run, then the body
ReRunEffect ==
  /\ Mounted
  /\ ~effectPending
  /\ reruns < MaxReruns
  /\ EffectBody(urlStore \ Revoked)
  /\ reruns' = reruns + 1
  /\ UNCHANGED <<homeVars, asyncVars, activeView, selectedFile, effectPending,
                 exportVars, history, inputVars>>

setActiveView(v) ==
  /\ Mounted
  /\ ~effectPending
  /\ activeView # v
  /\ activeView' = v
  /\ UNCHANGED <<homeVars, asyncVars, selectedFile, previewContent, blobUrls,
                 effectPending, reruns, exportVars, browserVars, history, inputVars>>

\* the file list of the code view
setSelectedFile(k) ==
  /\ Mounted
  /\ ~effectPending
  /\ activeView = "code"
  /\ selectedFile # output.files[k]
  /\ selectedFile' = output.files[k]
  /\ UNCHANGED <<homeVars, asyncVars, activeView, previewContent, blobUrls,
                 effectPending, reruns, exportVars, browserVars, history, inputVars>>

\* handleDownload up to the await of zip.generateAsync
handleDownload ==
  /\ Mounted
  /\ ~effectPending
  /\ exports < MaxExports
  /\ zipJobs' = Append(zipJobs, ZipOf(output.files))
  /\ exports' = exports + 1
  /\ UNCHANGED <<homeVars, asyncVars, previewVars, archive, browserVars,
                 history, inputVars>>

\* handleDownload after the await: an object URL for the blob, the link clicked
handleDownloadResume ==
  /\ zipJobs # <<>>
  /\ archive' = <<Head(zipJobs)>>
  /\ zipJobs' = Tail(zipJobs)
  /\ urlStore' = urlStore \cup {nextUrl}
  /\ nextUrl' = nextUrl + 1
  /\ urlOwner' = Append(urlOwner, [kind |-> "export", epoch |-> 0])
  /\ UNCHANGED <<homeVars, asyncVars, previewVars, exports, epoch, history, inputVars>>

Next ==
  \/ \E v \in {"", "https://example.com"} : setUrlInput(v)
  \/ \E v \in {"", "data:image/png;base64,AAAA"} : setImageBase64(v)
  \/ CloseErrorModal
  \/ generateCode
  \/ CollaboratorSettle
  \/ generateCodeResume
  \/ RunEffect
  \/ ReRunEffect
  \/ \E v \in {"preview", "code", "notes"} : setActiveView(v)
  \/ \E k \in 1..(IF Mounted THEN Len(output.files) ELSE 0) : setSelectedFile(k)
  \/ handleDownload
  \/ handleDownloadResume

Spec == Init /\ [][Next]_vars

\* a step that takes the oldest settled call off the job queue.  It is a step
\* of generateCodeResume, the only action that shortens the queue, and
\* generateCodeResume is enabled whenever the queue is not empty.
ResumeStep == jobs # <<>> /\ jobs' = Tail(jobs)

\* the continuation of a settled call is a queued job: the event loop runs it
FairSpec == Spec /\ WF_jobs(ResumeStep)

TypeOK ==
  /\ loading \in BOOLEAN
  /\ showErrorModal \in BOOLEAN
  /\ pending \in Nat
  /\ urlStore \subseteq 1..(nextUrl - 1)
  /\ Len(urlOwner) = nextUrl - 1

(***************************************************************************)
(* parseResponse on assembled texts                                        *)
(***************************************************************************)
Seeds == {<<>>, ScenarioA, ScenarioAFull, ScenarioB, NoCode, FilesMarker \o Chars("\n")}

Pieces ==
  {Fence, Chars("\n"), Chars(" "), Chars("js"), Chars(":a.js"), Chars("x"),
   Chars("c++"), NotesMarker, <<VT>>}

ParseInit ==
  /\ imageBase64 = ""
  /\ urlInput = ""
  /\ output = Null
  /\ loading = FALSE
  /\ showErrorModal = FALSE
  /\ pending = 0
  /\ jobs = <<>>
  /\ responseText \in Seeds
  /\ parsedOutput = Null
  /\ activeView = "preview"
  /\ selectedFile = Null
  /\ previewContent = <<>>
  /\ blobUrls = <<>>
  /\ effectPending = FALSE
  /\ reruns = 0
  /\ zipJobs = <<>>
  /\ archive = <<>>
  /\ exports = 0
  /\ urlStore = {}
  /\ nextUrl = 1
  /\ urlOwner = <<>>
  /\ epoch = 0
  /\ history = <<>>
  /\ pieces = 0
  /\ declared = <<>>

AppendPiece(p) ==
  /\ parsedOutput = Null
  /\ pieces < MaxPieces
  /\ responseText' = responseText \o p
  /\ pieces' = pieces + 1
  /\ UNCHANGED <<homeVars, pending, jobs, parsedOutput, previewVars, exportVars,
                 browserVars, history, declared>>

ParseStep ==
  /\ parsedOutput = Null
  /\ parsedOutput' = parseResponse(responseText)
  /\ UNCHANGED <<homeVars, pending, jobs, responseText, previewVars, exportVars,
                 browserVars, history, inputVars>>

ParseNext == (\E p \in Pieces : AppendPiece(p)) \/ ParseStep

ParseSpec == ParseInit /\ [][ParseNext]_vars

(***************************************************************************)
(* parseResponse on texts whose files section is written block by block    *)
(***************************************************************************)
MaxBlocks == 2   \* fenced blocks written into one files section

LangTokens == {<<>>, Chars("js"), Chars("c++")}
NameTokens == {<<>>, Chars("a.js")}
Bodies     == {Chars("x"), <<VT>> \o Chars(" y\n"), <<>>}

DeclaredBlocks == [lang : LangTokens, name : NameTokens, body : Bodies]

\* the documented block form: opening fence, optional language token,
\* optional ":"-prefixed name token, newline, body, closing fence on its own
\* line
FencedBlock(b) ==
  Fence \o b.lang \o (IF b.name = <<>> THEN <<>> ELSE <<":">> \o b.name)
  \o Chars("\n") \o b.body
  \o (IF b.body = <<>> \/ b.body[Len(b.body)] = "\n" THEN <<>> ELSE Chars("\n"))
  \o Fence

\* texts up to and including the files marker
FilesOpenings ==
  {FilesMarker \o Chars("\n"),
   Chars("### 4.1. Header Block\n") \o Block("js:early.js", "e") \o Chars("\n")
     \o FilesMarker \o Chars("\n")}

BlockInit ==
  /\ imageBase64 = ""
  /\ urlInput = ""
  /\ output = Null
  /\ loading = FALSE
  /\ showErrorModal = FALSE
  /\ pending = 0
  /\ jobs = <<>>
  /\ responseText \in FilesOpenings
  /\ parsedOutput = Null
  /\ activeView = "preview"
  /\ selectedFile = Null
  /\ previewContent = <<>>
  /\ blobUrls = <<>>
  /\ effectPending = FALSE
  /\ reruns = 0
  /\ zipJobs = <<>>
  /\ archive = <<>>
  /\ exports = 0
  /\ urlStore = {}
  /\ nextUrl = 1
  /\ urlOwner = <<>>
  /\ epoch = 0
  /\ history = <<>>
  /\ pieces = 0
  /\ declared = <<>>

NotesWritten == IndexOf(responseText, NotesMarker, 1) # 0

WriteBlock(b) ==
  /\ parsedOutput = Null
  /\ ~NotesWritten
  /\ Len(declared) < MaxBlocks
  /\ responseText' = responseText \o FencedBlock(b) \o Chars("\n")
  /\ declared' = Append(declared, b)
  /\ UNCHANGED <<homeVars, pending, jobs, parsedOutput, previewVars, exportVars,
                 browserVars, history, pieces>>

\* the notes region, with a fenced block of its own
WriteNotes ==
  /\ parsedOutput = Null
  /\ ~NotesWritten
  /\ responseText' = responseText \o NotesMarker \o Chars("\n")
                       \o Block("js:late.js", "n")
  /\ UNCHANGED <<homeVars, pending, jobs, parsedOutput, previewVars, exportVars,
                 browserVars, history, inputVars>>

BlockNext == (\E b \in DeclaredBlocks : WriteBlock(b)) \/ WriteNotes \/ ParseStep

BlockSpec == BlockInit /\ [][BlockNext]_vars

(***************************************************************************)
(* CodePreview mounted on a document whose entry file is written reference *)
(* by reference                                                            *)
(***************************************************************************)
MaxRefs == 2   \* references written into one entry document

RefForms == {[attr |-> Chars("href"), quote |-> "'"],
             [attr |-> Chars("src"), quote |-> "\""]}

RefPrefixes == {<<>>, Chars("./")}

RefPaths == {Chars("app.js"), Chars("/app.js"), Chars("missing.js")}

DeclaredRefs ==
  {[attr |-> f.attr, quote |-> f.quote, prefix |-> p, path |-> t] :
     f \in RefForms, p \in RefPrefixes, t \in RefPaths}

\* a reference as it stands in the markup
RefText(r) == r.attr \o <<"=", r.quote>> \o r.prefix \o r.path \o <<r.quote>>

\* the markup around the references
RECURSIVE EntryBody(_)
EntryBody(texts) ==
  IF texts = <<>> THEN Chars("</p>")
  ELSE Head(texts) \o Chars("<b>") \o EntryBody(Tail(texts))

EntryText(texts) == Chars("<p id='t'>") \o EntryBody(texts)

AppJs == [name |-> Chars("app.js"), lang |-> Chars("js"), content |-> Chars("a()")]

EntryNamed(name, refs) ==
  [name |-> name, lang |-> Chars("html"),
   content |-> EntryText([k \in 1..Len(refs) |-> RefText(refs[k])])]

EntryFile(refs) == EntryNamed(IndexHtml, refs)

\* names that are not exactly index.html
NearMissNames == {Chars("src/index.html"), Chars("Index.html")}

\* the documents a generation can have stored: the entry file first or last,
\* or the markup under a name that is not the entry file's
EntryDocuments(refs) ==
  {[header |-> <<>>, structure |-> <<>>, notes |-> <<>>, files |-> fs] :
     fs \in {<<EntryFile(refs), AppJs>>, <<AppJs, EntryFile(refs)>>}
            \cup {<<EntryNamed(n, refs), AppJs>> : n \in NearMissNames}}

RefLists == UNION {[1..n -> DeclaredRefs] : n \in 0..MaxRefs}

\* a successful generation has just stored the document; CodePreview is
\* committed and its effect not flushed yet
RewriteInit ==
  /\ imageBase64 = ""
  /\ urlInput = "https://example.com"
  /\ declared \in RefLists
  /\ output \in EntryDocuments(declared)
  /\ loading = FALSE
  /\ showErrorModal = FALSE
  /\ pending = 0
  /\ jobs = <<>>
  /\ responseText = <<>>
  /\ parsedOutput = output
  /\ activeView = "preview"
  /\ selectedFile = InitialSelectedFile(output.files)
  /\ previewContent = <<>>
  /\ blobUrls = <<>>
  /\ effectPending = TRUE
  /\ reruns = 0
  /\ zipJobs = <<>>
  /\ archive = <<>>
  /\ exports = 0
  /\ urlStore = {}
  /\ nextUrl = 1
  /\ urlOwner = <<>>
  /\ epoch = 0
  /\ history = <<"ok">>
  /\ pieces = 0

RewriteNext == RunEffect \/ ReRunEffect

RewriteSpec == RewriteInit /\ [][RewriteNext]_vars

(***************************************************************************)
(* CodePreview mounted on documents with files of many kinds               *)
(***************************************************************************)
AssetNames ==
  {Chars("style.css"), Chars("app.js"), Chars("data.json"), Chars("logo.svg"),
   Chars("README.md"), Chars("untitled"), Chars("a.mjs"), Chars("js/b.JS"),
   Chars("c.json.txt"), Chars("page.html")}

AssetFile(name) == [name |-> name, lang |-> Chars("text"), content |-> Chars("x")]

AssetDocuments ==
  {[header |-> <<>>, structure |-> <<>>, notes |-> <<>>,
    files |-> <<EntryFile(<<>>), AssetFile(a), AssetFile(b)>>] :
     a \in AssetNames, b \in AssetNames}

AssetInit ==
  /\ imageBase64 = ""
  /\ urlInput = "https://example.com"
  /\ declared = <<>>
  /\ output \in AssetDocuments
  /\ loading = FALSE
  /\ showErrorModal = FALSE
  /\ pending = 0
  /\ jobs = <<>>
  /\ responseText = <<>>
  /\ parsedOutput = output
  /\ activeView = "preview"
  /\ selectedFile = InitialSelectedFile(output.files)
  /\ previewContent = <<>>
  /\ blobUrls = <<>>
  /\ effectPending = TRUE
  /\ reruns = 0
  /\ zipJobs = <<>>
  /\ archive = <<>>
  /\ exports = 0
  /\ urlStore = {}
  /\ nextUrl = 1
  /\ urlOwner = <<>>
  /\ epoch = 0
  /\ history = <<"ok">>
  /\ pieces = 0

AssetNext == RunEffect \/ ReRunEffect

AssetSpec == AssetInit /\ [][AssetNext]_vars

(***************************************************************************)
(* handleDownload on documents whose file names are paths                  *)
(***************************************************************************)
MaxExportFiles == 2   \* files of an exported document

ExportNames == {IndexHtml, Chars("app.js"), Chars("js/app.js"), Chars("a/b/c.js")}

ExportContents == {Chars("x"), Chars("y")}

ExportFiles == [name : ExportNames, lang : {Chars("js")}, content : ExportContents]

ExportDocuments ==
  {[header |-> <<>>, structure |-> <<>>, notes |-> <<>>, files |-> fs] :
     fs \in UNION {[1..n -> ExportFiles] : n \in 1..MaxExportFiles}}

ExportInit ==
  /\ imageBase64 = ""
  /\ urlInput = "https://example.com"
  /\ declared = <<>>
  /\ output \in ExportDocuments
  /\ loading = FALSE
  /\ showErrorModal = FALSE
  /\ pending = 0
  /\ jobs = <<>>
  /\ responseText = <<>>
  /\ parsedOutput = output
  /\ activeView = "preview"
  /\ selectedFile = InitialSelectedFile(output.files)
  /\ previewContent = <<>>
  /\ blobUrls = <<>>
  /\ effectPending = TRUE
  /\ reruns = 0
  /\ zipJobs = <<>>
  /\ archive = <<>>
  /\ exports = 0
  /\ urlStore = {}
  /\ nextUrl = 1
  /\ urlOwner = <<>>
  /\ epoch = 0
  /\ history = <<"ok">>
  /\ pieces = 0

ExportNext == RunEffect \/ handleDownload \/ handleDownloadResume

ExportSpec == ExportInit /\ [][ExportNext]_vars

(***************************************************************************)
(* Properties                                                              *)
(***************************************************************************)
PreviewHandles == {id \in urlStore : urlOwner[id].kind = "preview"}
ExportHandles  == {id \in urlStore : urlOwner[id].kind = "export"}

\* the iframe renderPreview puts on the page
renderPreview == [srcDoc |-> previewContent, sandbox |-> SandboxTokens]

\* C1: at most one collaborator call is outstanding; while a call is
\* outstanding or its continuation is still queued the UI is generating and
\* the Generate button is disabled, so a new submission cannot start.
C1_SingleOutstandingCall ==
  /\ pending + Len(jobs) <= 1
  /\ (pending + Len(jobs) = 1 => loading /\ GenerateDisabled)

\* a second submission, made after the first call settled and finished
C1_Witness == pending = 1 /\ loading /\ Len(history) = 1

\* C2: a document with an empty files sequence is never stored as the
\* output, hence never handed to CodePreview.
C2_NoEmptyDocumentStored ==
  /\ output # Null => Len(output.files) >= 1
  /\ Mounted => Len(output.files) >= 1

\* a document is shown after a failed generation and a successful one
C2_Witness ==
  /\ Mounted
  /\ Len(history) = 2
  /\ history[1] \in {"empty", "reject"}
  /\ history[2] = "ok"

\* C3: once a started generation's call has settled, whatever the outcome,
\* the UI leaves the generating state, and submission is enabled again
\* whenever there is an input, whether or not the error indicator was closed.
C3_SettledReturnsToIdle ==
  (jobs # <<>>) ~> (~loading /\ (~NoInput => ~GenerateDisabled))

\* idle and retryable after an empty result, the error indicator still open
C3_Witness ==
  /\ history # <<>>
  /\ history[Len(history)] = "empty"
  /\ showErrorModal
  /\ ~loading
  /\ ~GenerateDisabled

\* C4: a generation whose decomposition yields no file and a generation
\* whose call rejects end, from the same prior state, in the same UI state:
\* the inputs as they were, no document, not generating, the error indicator
\* shown, and no preview.
C4_EmptyResultLikeRejection ==
  [][(/\ jobs # <<>>
      /\ jobs' = Tail(jobs)
      /\ \/ Head(jobs).kind = "reject"
         \/ Len(parseResponse(Head(jobs).text).files) = 0)
     => /\ homeVars' = <<imageBase64, urlInput, Null, FALSE, TRUE>>
        /\ ~Mounted'
        /\ previewContent' = <<>>]_vars

\* an empty result after a successful generation: its document is gone
C4_Witness ==
  /\ history = <<"ok", "empty">>
  /\ output = Null
  /\ showErrorModal
  /\ ~loading

\* C5: every live handle of the preview belongs to the most recent
\* materialization: the handles of the previous file set are revoked before
\* handles for a new one are created.
C5_OneLiveHandleSet ==
  \A id \in PreviewHandles : urlOwner[id].epoch = epoch

\* C6: once the preview has unmounted, every handle the Asset Materializer
\* created has been revoked.
C6_NoHandleAfterSessionEnd ==
  ~Mounted => PreviewHandles = {}

\* C7: once every started export has completed, the object URLs the exports
\* created have been revoked.
C7_ExportHandleReleased ==
  zipJobs = <<>> => ExportHandles = {}

\* C8: whenever the preview is rendered, the sandbox grants script execution
\* and nothing else; same-origin access is denied.
C8_SandboxScriptsOnly ==
  PreviewRendered =>
    /\ renderPreview.sandbox = {"allow-scripts"}
    /\ "allow-same-origin" \notin renderPreview.sandbox

ScenarioAExpected ==
  [header    |-> Chars("Hi"),
   structure |-> Chars("Tree"),
   notes     |-> Chars("Done"),
   files     |-> <<[name    |-> Chars("index.html"),
                    lang    |-> Chars("html"),
                    content |-> Chars("<h1>Hi</h1>")]>>]

\* C9 as stated: Scenario A, with the files marker "### 4.3. Code Files",
\* parses to header Hi, structure Tree, notes Done and the one file
\* index.html.
C9_ScenarioA ==
  (responseText = ScenarioA /\ parsedOutput # Null) => parsedOutput = ScenarioAExpected

\* C9 amended: Scenario A with the files marker
\* "### 4.3. Code Files (Full & Unabridged)" parses to header Hi, structure
\* Tree, notes Done and the one file index.html.
C9_ScenarioAFullMarker ==
  (responseText = ScenarioAFull /\ parsedOutput # Null) => parsedOutput = ScenarioAExpected

C9_Witness == responseText = ScenarioAFull /\ parsedOutput = ScenarioAExpected

ZeroBlocksInFilesRegion(text) ==
  \/ FilesSectionMatch(text) = Null
  \/ CodeBlocks(FilesSectionMatch(text).section, 1) = <<>>

\* an opening fence and a closing fence after it
HasFencePair(text) ==
  \E i, j \in 1..Len(text) :
    j >= i + 3 /\ StartsWithAt(text, Fence, i) /\ StartsWithAt(text, Fence, j)

\* C10: when no block is found in the files region, a text with no fenced
\* block yields no file, and a text with a fenced block yields exactly one
\* file code.js / javascript whose content is the trimmed body of the first
\* fenced block, whatever its fence tag (the body is compared where the first
\* fence opens a block of the documented form).
C10_LastResortRecovery ==
  (parsedOutput # Null /\ ZeroBlocksInFilesRegion(responseText)) =>
    IF ~HasFencePair(responseText) THEN parsedOutput.files = <<>>
    ELSE /\ Len(parsedOutput.files) = 1
         /\ parsedOutput.files[1].name = Chars("code.js")
         /\ parsedOutput.files[1].lang = Chars("javascript")
         /\ LET first == CodeBlockAt(responseText, IndexOf(responseText, Fence, 1))
            IN first # Null => parsedOutput.files[1].content = Trim(first.content)

\* the CodeFile the documented form assigns to a block
ExpectedFile(b) ==
  [lang    |-> IF b.lang = <<>> THEN Chars("text") ELSE b.lang,
   name    |-> IF b.name = <<>> THEN Chars("untitled") ELSE b.name,
   content |-> Trim(b.body)]

\* C11: a files section holding N >= 1 fenced blocks of the documented form
\* parses to exactly N files, in source order, none of them from outside the
\* files region, each with the block's language token (or text), the block's
\* name token (or untitled) and the block's body trimmed.
C11_BlocksInSourceOrder ==
  (parsedOutput # Null /\ Len(declared) >= 1) =>
    parsedOutput.files = [k \in 1..Len(declared) |-> ExpectedFile(declared[k])]

\* the region a marker opens: "" when the marker is missing, else the text
\* from the marker to the first occurrence after it of the nearest following
\* marker that is there (to the end of the text when none is), outer
\* whitespace aside
RECURSIVE RegionEnd(_, _, _)
RegionEnd(text, from, followers) ==
  IF followers = <<>> THEN Len(text) + 1
  ELSE IF IndexOf(text, Head(followers), from) # 0
       THEN IndexOf(text, Head(followers), from)
       ELSE RegionEnd(text, from, Tail(followers))

Region(text, own, followers) ==
  LET i == IndexOf(text, own, 1)
  IN IF i = 0 THEN <<>>
     ELSE Trim(SubSeq(text, i + Len(own), RegionEnd(text, i + Len(own), followers) - 1))

\* C12: every raw text parses, and header, structure and notes are each the
\* text between the region's own marker and the next marker (the end of the
\* text for notes); a missing marker empties its own region and no other.
C12_RegionsDegradeSeparately ==
  parsedOutput # Null =>
    /\ parsedOutput.header =
         Region(responseText, HeaderMarker, <<StructureMarker, CodeFilesMarker, NotesMarker>>)
    /\ parsedOutput.structure =
         Region(responseText, StructureMarker, <<CodeFilesMarker, NotesMarker>>)
    /\ parsedOutput.notes = Region(responseText, NotesMarker, <<>>)

\* the name a reference is looked up under: the path without its leading "/"
LookupName(r) ==
  IF r.path[1] = "/" THEN SubSeq(r.path, 2, Len(r.path)) ELSE r.path

\* the handle the last materialization created for the k-th file
HandleOfFile(k) ==
  Min({id \in 1..(nextUrl - 1) :
         urlOwner[id].kind = "preview" /\ urlOwner[id].epoch = epoch}) + k - 1

\* the handles the last materialization created for the files carrying a name
HandlesOf(name) ==
  {HandleOfFile(k) : k \in {j \in 1..Len(output.files) : output.files[j].name = name}}

\* what a reference may read after rewriting
RewrittenRefs(r) ==
  IF HandlesOf(LookupName(r)) = {} THEN {RefText(r)}
  ELSE {r.attr \o <<"=", q>> \o BlobUrl(h) \o <<q>> :
          q \in Quotes, h \in HandlesOf(LookupName(r)) \cap urlStore}

\* the entry documents the rewriting of the references may give
RECURSIVE RewrittenBodies(_)
RewrittenBodies(refs) ==
  IF refs = <<>> THEN {<<>>}
  ELSE {<<t>> \o rest : t \in RewrittenRefs(Head(refs)),
                        rest \in RewrittenBodies(Tail(refs))}

\* C13: after the effect has run, the preview content is the entry file with
\* every href/src reference whose path (leading "./" skipped, leading "/"
\* stripped) is the exact name of a file replaced by that file's live handle,
\* every other reference as it was, and the rest of the markup untouched.
C13_ReferencesRewritten ==
  (/\ Mounted /\ ~effectPending
   /\ output \in EntryDocuments(declared)
   /\ \E k \in 1..Len(output.files) : output.files[k].name = IndexHtml) =>
    previewContent \in {EntryText(texts) : texts \in RewrittenBodies(declared)}

\* "./app.js" resolved to a handle next to "missing.js" left as it was
C13_Witness ==
  /\ Mounted /\ ~effectPending
  /\ Len(declared) = 2
  /\ declared[1].prefix = Chars("./") /\ declared[1].path = Chars("app.js")
  /\ declared[2].prefix = <<>> /\ declared[2].path = Chars("missing.js")
  /\ previewContent # output.files[FindByName(output.files, IndexHtml)].content
  /\ \E i \in 1..Len(previewContent) :
       StartsWithAt(previewContent, Chars("src=\"missing.js\""), i)
  /\ \E i \in 1..Len(previewContent) :
       StartsWithAt(previewContent, Chars("src=\"blob:"), i)

\* C14: rewriting the already rewritten entry document once more, with the
\* same asset table, changes nothing.
C14_RewriteIdempotent ==
  (Mounted /\ ~effectPending /\ blobUrls # <<>>) =>
    ReplaceRefs(previewContent, 1, blobUrls[1]) = previewContent

\* a rewritten document, both of its references resolved
C14_Witness ==
  /\ Mounted /\ ~effectPending /\ blobUrls # <<>>
  /\ Len(declared) = 2
  /\ \A k \in 1..2 : LookupName(declared[k]) = Chars("app.js")
  /\ declared[1].attr = Chars("href") /\ declared[2].attr = Chars("src")
  /\ previewContent =
       EntryText(<<Chars("href=\"") \o BlobUrl(blobUrls[1][Chars("app.js")]) \o Chars("\""),
                   Chars("src=\"") \o BlobUrl(blobUrls[1][Chars("app.js")]) \o Chars("\"")>>)

\* C15: once the effect of a mounted preview has run, the asset table holds
\* one live handle for each file of the document, as many handles as files,
\* with or without index.html and with or without repeated names.
C15_OneAssetPerFile ==
  (Mounted /\ ~effectPending) =>
    /\ blobUrls # <<>>
    /\ \A k \in 1..Len(output.files) : output.files[k].name \in DOMAIN blobUrls[1]
    /\ Cardinality(Range(blobUrls[1])) = Len(output.files)
    /\ Range(blobUrls[1]) \subseteq urlStore

\* the position of the first file carrying the name of the file at k
FirstNamedLike(files, k) ==
  CHOOSE j \in 1..k : files[j].name = files[k].name
                      /\ \A i \in 1..(j - 1) : files[i].name # files[k].name

Occurs(t, pat) == \E i \in 1..Len(t) : StartsWithAt(t, pat, i)

\* C16: among files of one name the first in source order is the canonical
\* one: the entry file is the first index.html, the file selected by default
\* is the first index.html (the first file when there is none), and a
\* rewritten reference carries the handle of the first file of that name,
\* never the handle of a later one.
C16_FirstByNameCanonical ==
  LET files == output.files
      entries == {k \in 1..Len(files) : files[k].name = IndexHtml}
      later == {k \in 1..Len(files) : FirstNamedLike(files, k) # k}
  IN Mounted =>
       /\ effectPending =>   \* just mounted
            selectedFile = files[IF entries = {} THEN 1
                                 ELSE FirstNamedLike(files, CHOOSE k \in entries : TRUE)]
       /\ (~effectPending /\ blobUrls # <<>>) =>
            /\ previewContent =
                 ReplaceRefs(files[FirstNamedLike(files, CHOOSE k \in entries : TRUE)].content,
                             1, blobUrls[1])
            /\ \A k \in later :
                 ~Occurs(previewContent,
                         BlobUrl(HandleOfFile(k)) \o <<"\"">>)

\* the archive z holds, at each name of files and nowhere else, the content
\* of the file of that name (of the last one when the name repeats)
ArchiveOfFiles(z, files) ==
  /\ DOMAIN z = {files[k].name : k \in 1..Len(files)}
  /\ \A k \in 1..Len(files) :
       (\A j \in (k + 1)..Len(files) : files[j].name # files[k].name)
         => z[files[k].name] = [dir |-> FALSE, content |-> files[k].content]

\* C17: the archive handed to a download has an entry at each declared name
\* of the exported document, holding that file's content unchanged (the last
\* file's for a repeated name), and has no other entry.
C17_ArchiveRoundTrip ==
  archive # <<>> => ArchiveOfFiles(archive[1], output.files)

\* C18: once the effect has run on a document none of whose files is named
\* exactly index.html, the frame shows the fixed placeholder, not the content
\* of a file of the document, and no asset table was built.
C18_PlaceholderWithoutEntry ==
  (/\ Mounted /\ ~effectPending
   /\ \A k \in 1..Len(output.files) : output.files[k].name # IndexHtml) =>
    /\ renderPreview.srcDoc = Placeholder
    /\ blobUrls = <<>>
    /\ \A k \in 1..Len(output.files) :
         renderPreview.srcDoc # output.files[k].content

\* the placeholder shown for a document whose markup is in src/index.html,
\* after a re-run of the effect
C18_Witness ==
  /\ Mounted /\ ~effectPending /\ reruns = 1
  /\ output.files[1].name = Chars("src/index.html")
  /\ Len(declared) = 1
  /\ previewContent = Placeholder

\* the extension of a name: its text from the last dot on, <<>> without a dot
Extension(name) ==
  LET dots == {i \in 1..Len(name) : name[i] = "."}
  IN IF dots = {} THEN <<>>
     ELSE SubSeq(name, CHOOSE i \in dots : \A j \in dots : j <= i, Len(name))

\* the MIME inference table
MimeTable(ext) ==
  CASE ext = Chars(".html") -> "text/html"
    [] ext = Chars(".css")  -> "text/css"
    [] ext = Chars(".js")   -> "application/javascript"
    [] ext = Chars(".json") -> "application/json"
    [] ext = Chars(".svg")  -> "image/svg+xml"
    [] OTHER                -> "text/plain"

\* C19: the blob behind the handle of every file has the type the table
\* gives for the extension of the file's name, text/plain for any other or
\* missing extension, the same on every materialization.
C19_MimeByExtension ==
  (Mounted /\ ~effectPending /\ blobUrls # <<>>) =>
    \A k \in 1..Len(output.files) :
      urlOwner[HandleOfFile(k)].type
        = MimeTable(Extension(output.files[k].name))

\* a re-run has materialized data.json and a.mjs again
C19_Witness ==
  /\ Mounted /\ ~effectPending /\ reruns = 1
  /\ output.files[2].name = Chars("data.json")
  /\ output.files[3].name = Chars("a.mjs")
  /\ urlOwner[HandleOfFile(2)].type = "application/json"
  /\ urlOwner[HandleOfFile(3)].type = "text/plain"

Digits == {"0", "1", "2", "3", "4", "5", "6", "7", "8", "9"}

DigitValue(c) == CHOOSE d \in 0..9 : ToString(d) = c

RECURSIVE NumberAt(_, _, _)
NumberAt(t, i, acc) ==
  IF i <= Len(t) /\ t[i] \in Digits
  THEN NumberAt(t, i + 1, 10 * acc + DigitValue(t[i]))
  ELSE acc

\* the object URLs written in a text
EmbeddedHandles(t) ==
  {NumberAt(t, i + 5, 0) :
     i \in {j \in 1..Len(t) : t[j] = "b" /\ StartsWithAt(t, Chars("blob:"), j)}}

\* C20: whenever the frame is rendered, every object URL written in the
\* content it shows is live.
C20_DisplayedHandlesLive ==
  PreviewRendered => EmbeddedHandles(renderPreview.srcDoc) \subseteq urlStore

\* the frame of a second generation after a re-run of its effect, showing a
\* resolved reference while handles of earlier materializations are revoked
C20_Witness ==
  /\ PreviewRendered
  /\ history = <<"ok", "ok">>
  /\ reruns = 1
  /\ EmbeddedHandles(previewContent) # {}
  /\ EmbeddedHandles(previewContent) \subseteq urlStore
  /\ \E id \in 1..(nextUrl - 1) : urlOwner[id].kind = "preview" /\ id \notin urlStore

====
